---- MODULE Spec2Model ----
(***************************************************************************)
(* Model of sciurus' configuration store (src/config.rs): JsonConfig, a    *)
(* tree of JSON nodes addressed by dotted keys, with typed values, a       *)
(* "base64:" tag for byte strings, and load/save of one backing file       *)
(* (specification Spec); and of the OneDrive client's use of that store    *)
(* for its authorization code and refresh token (src/objectstore/          *)
(* onedrive.rs, specification SpecOD).                                     *)
(*                                                                         *)
(* Representation.  Text (Rust String / &str) is a sequence of one-char    *)
(* strings.  Every tagged value is a pair <<tag, payload>>:                *)
(*   Value      <<"String", text>>  <<"Number", f64>>  <<"Bool", b>>       *)
(*              <<"Bytes", bytes>>  <<"Null", <<>>>>                       *)
(*   f64        <<"finite", n>>  <<"inf", 0>>  <<"nan", 0>>                *)
(*   JsonValue  <<"Null", <<>>>>  <<"String", text>>  <<"Number", num>>    *)
(*              <<"Boolean", b>>  <<"Object", fields>>  <<"Array", <<>>>>  *)
(*              (fields: a function from segment names to JsonValue; the   *)
(*              json crate keeps insertion order, which no read observes)  *)
(*   json Number <<"finite", n>>  <<"nan", 0>>                             *)
(*   Option     <<"None", <<>>>>  <<"Some", v>>                            *)
(*   file       <<"absent", <<>>>>  <<"garbage", <<>>>>  <<"text", doc>>   *)
(*              doc: the written document, <<"lit", "null"|"true"|"false">>*)
(*              <<"num", n>>  <<"str", text>>  <<"obj", fields>>           *)
(*              <<"arr", <<>>>>                                            *)
(***************************************************************************)
EXTENDS Integers, Sequences, FiniteSets, TLC

VARIABLES
    auto_save,  \* JsonConfig.auto_save
    data,       \* JsonConfig.data, the in-memory tree
    file,       \* the content of the file at JsonConfig.path
    nops,       \* number of operations performed so far
    lastOp,     \* the operation that produced this state
    lastKey,    \* its key argument (get, set, delete)
    lastVal,    \* its value argument (set)
    lastRes,    \* how it ended: "Ok", "Parse", "Io" or "Panic"
    lastGet,    \* what get returned
    lastIo,     \* what the file system did in the operation's save or load
    prevData,   \* data before the operation
    prevFile,   \* file before the operation
    written,    \* keys that were the target of a set on this store
    loaded,     \* whether a load has replaced the tree of this store
    od_pc,      \* OneDriveClient: where the program stands
    od_data,    \* the tree of the store the client shares (Arc<RwLock<TConfig>>)
    od_refresh, \* OneDriveClient.refresh_token
    od_access,  \* OneDriveClient.access_token
    od_code,    \* access_test: the local `code`
    od_sent,    \* the codes posted to the token endpoint, in order
    od_runs,    \* number of times the program was started
    od_entered  \* the codes the user has put into the configuration

cfgvars == <<auto_save, data, file, nops, lastOp, lastKey, lastVal, lastRes,
             lastGet, lastIo, prevData, prevFile, written, loaded>>

odvars == <<od_pc, od_data, od_refresh, od_access, od_code, od_sent, od_runs,
            od_entered>>

vars == <<cfgvars, odvars>>

\* Number of operations explored in one behaviour.
MaxOps == 2

\* Number of times the program is started in one behaviour.
MaxRuns == 3

-----------------------------------------------------------------------------
(* Text, keys and values the operations are called with *)

BASE64_PREFIX == <<"b", "a", "s", "e", "6", "4", ":">>

T_x == <<"x">>
T_tagged == BASE64_PREFIX \o <<"A", "Q", "=", "=">>
T_badtag == BASE64_PREFIX \o <<"*">>

K_empty == <<>>
K_a == <<"a">>
K_aa == <<"a", ".", "a">>
K_ab == <<"a", ".", "b">>
K_aba == <<"a", ".", "b", ".", "a">>

Keys == {K_empty, K_a, K_aa, K_ab, K_aba}

F_one == <<"finite", 1>>
F_inf == <<"inf", 0>>
F_nan == <<"nan", 0>>

V_null == <<"Null", <<>>>>

Values == {<<"String", T_x>>, <<"String", T_tagged>>, <<"String", T_badtag>>,
           <<"Number", F_one>>, <<"Number", F_inf>>,
           <<"Bool", TRUE>>, <<"Bytes", <<1>>>>, V_null}

None == <<"None", <<>>>>
Some(v) == <<"Some", v>>

-----------------------------------------------------------------------------
(* The json crate's JsonValue, as config.rs uses it *)

J_null == <<"Null", <<>>>>
NoFields == [n \in {} |-> J_null]
new_object == <<"Object", NoFields>>

is_object(node) == node[1] = "Object"

\* Insert, broken: the object is rebuilt with the one field
Insert_Alone(fields, name, child) == [n \in {name} |-> child]

\* fields with `name` bound to `child`, the other fields kept
Insert(fields, name, child) ==
    [n \in (DOMAIN fields) \cup {name} |-> IF n = name THEN child ELSE fields[n]]

\* &node[name]: a missing field, and any field of a non-object, reads as Null
Index(node, name) ==
    IF is_object(node) /\ name \in DOMAIN node[2] THEN node[2][name] ELSE J_null

\* the node after taking &mut node[name]: a non-object becomes an empty
\* object, and a missing field is inserted as Null
index_mut(node, name) ==
    LET fields == IF is_object(node) THEN node[2] ELSE NoFields
    IN  IF name \in DOMAIN fields THEN <<"Object", fields>>
        ELSE <<"Object", Insert(fields, name, J_null)>>

\* remove, broken: the field is looked up and left in place
remove_Keeps(node, name) == node

\* node.remove(name): only an object loses anything
remove(node, name) ==
    IF is_object(node)
    THEN <<"Object", [n \in (DOMAIN node[2]) \ {name} |-> node[2][n]]>>
    ELSE node

\* json::number::Number::from(f64): infinities and NaN all become NaN
NumberFromF64(x) == IF x[1] = "finite" THEN x ELSE F_nan

\* f64::from(Number)
F64FromNumber(n) == n

-----------------------------------------------------------------------------
(* key.split('.') *)

RECURSIVE split(_)
split(key) ==
    IF \A i \in 1..Len(key) : key[i] # "."
    THEN <<key>>
    ELSE LET i == CHOOSE j \in 1..Len(key) :
                      key[j] = "." /\ \A k \in 1..(j - 1) : key[k] # "."
         IN  <<SubSeq(key, 1, i - 1)>> \o split(SubSeq(key, i + 1, Len(key)))

last(keys) == keys[Len(keys)]

-----------------------------------------------------------------------------
(* The base64 crate's standard encoding, as config.rs uses it *)

Alphabet ==
    <<"A", "B", "C", "D", "E", "F", "G", "H", "I", "J", "K", "L", "M", "N", "O", "P",
      "Q", "R", "S", "T", "U", "V", "W", "X", "Y", "Z", "a", "b", "c", "d", "e", "f",
      "g", "h", "i", "j", "k", "l", "m", "n", "o", "p", "q", "r", "s", "t", "u", "v",
      "w", "x", "y", "z", "0", "1", "2", "3", "4", "5", "6", "7", "8", "9", "+", "/">>

Sym(i) == Alphabet[i + 1]
IsSym(c) == \E i \in 1..Len(Alphabet) : Alphabet[i] = c
SymVal(c) == (CHOOSE i \in 1..Len(Alphabet) : Alphabet[i] = c) - 1

\* base64::encode(&x): three bytes to four symbols, "=" padding at the end
RECURSIVE base64_encode(_)
base64_encode(b) ==
    IF Len(b) = 0 THEN <<>>
    ELSE IF Len(b) = 1
    THEN <<Sym(b[1] \div 4), Sym((b[1] % 4) * 16), "=", "=">>
    ELSE IF Len(b) = 2
    THEN <<Sym(b[1] \div 4), Sym((b[1] % 4) * 16 + b[2] \div 16),
           Sym((b[2] % 16) * 4), "=">>
    ELSE <<Sym(b[1] \div 4), Sym((b[1] % 4) * 16 + b[2] \div 16),
           Sym((b[2] % 16) * 4 + b[3] \div 64), Sym(b[3] % 64)>>
         \o base64_encode(SubSeq(b, 4, Len(b)))

DecodeErr == <<"Err", <<>>>>

\* base64::decode(s): <<"Ok", bytes>>, or Err on a symbol outside the
\* alphabet or a malformed final group
RECURSIVE base64_decode(_)
base64_decode(s) ==
    IF Len(s) = 0 THEN <<"Ok", <<>>>>
    ELSE IF Len(s) < 4 THEN DecodeErr
    ELSE LET rest == SubSeq(s, 5, Len(s))
             v(i) == SymVal(s[i])
         IN  IF IsSym(s[1]) /\ IsSym(s[2]) /\ IsSym(s[3]) /\ IsSym(s[4])
             THEN LET r == base64_decode(rest)
                  IN  IF r[1] = "Ok"
                      THEN <<"Ok", <<v(1) * 4 + v(2) \div 16,
                                     (v(2) % 16) * 16 + v(3) \div 4,
                                     (v(3) % 4) * 64 + v(4)>> \o r[2]>>
                      ELSE DecodeErr
             ELSE IF rest = <<>> /\ IsSym(s[1]) /\ IsSym(s[2]) /\ IsSym(s[3])
                     /\ s[4] = "="
             THEN <<"Ok", <<v(1) * 4 + v(2) \div 16,
                            (v(2) % 16) * 16 + v(3) \div 4>>>>
             ELSE IF rest = <<>> /\ IsSym(s[1]) /\ IsSym(s[2])
                     /\ s[3] = "=" /\ s[4] = "="
             THEN <<"Ok", <<v(1) * 4 + v(2) \div 16>>>>
             ELSE DecodeErr

starts_with(x, prefix) ==
    Len(x) >= Len(prefix) /\ SubSeq(x, 1, Len(prefix)) = prefix

-----------------------------------------------------------------------------
(* JsonConfig: path resolution and value conversion *)

\* JsonConfig::_lookup: descend with the read-only index
RECURSIVE _lookup(_, _)
_lookup(node, keys) ==
    LET name == Head(keys)
        keys2 == Tail(keys)
    IN  IF keys2 = <<>> THEN Index(node, name)
        ELSE _lookup(Index(node, name), keys2)

\* JsonConfig::lookup
lookup(d, key) == _lookup(d, split(key))

\* str_to_value, broken: the marker alone decides, a failed decode yields
\* empty Bytes
str_to_value_MarkerOnly(x) ==
    IF starts_with(x, BASE64_PREFIX)
    THEN LET r == base64_decode(SubSeq(x, Len(BASE64_PREFIX) + 1, Len(x)))
         IN  <<"Bytes", IF r[1] = "Ok" THEN r[2] ELSE <<>>>>
    ELSE <<"String", x>>

\* JsonConfig::str_to_value
str_to_value(x) ==
    LET r == IF starts_with(x, BASE64_PREFIX)
             THEN base64_decode(SubSeq(x, Len(BASE64_PREFIX) + 1, Len(x)))
             ELSE DecodeErr
    IN  IF r[1] = "Ok" THEN <<"Bytes", r[2]>> ELSE <<"String", x>>

\* Config::get for JsonConfig
get(d, key) ==
    LET node == lookup(d, key)
    IN  CASE node[1] = "String" -> Some(str_to_value(node[2]))
          [] node[1] = "Number" -> Some(<<"Number", F64FromNumber(node[2])>>)
          [] node[1] = "Boolean" -> Some(<<"Bool", node[2]>>)
          [] OTHER -> None

\* ToLeaf, broken: Bytes are stored as bare base64, without the marker
ToLeaf_Untagged(value) ==
    CASE value[1] = "String" -> <<"String", value[2]>>
      [] value[1] = "Number" -> <<"Number", NumberFromF64(value[2])>>
      [] value[1] = "Bool" -> <<"Boolean", value[2]>>
      [] value[1] = "Bytes" -> <<"String", base64_encode(value[2])>>
      [] OTHER -> J_null

\* get_str, broken: a Bytes value is handed out too
get_str_Coerces(d, key) ==
    LET v == get(d, key)
    IN  IF v[1] = "Some" /\ v[2][1] \in {"String", "Bytes"}
        THEN Some(v[2][2]) ELSE None

\* Config::get_str
get_str(d, key) ==
    LET v == get(d, key)
    IN  IF v[1] = "Some" /\ v[2][1] = "String" THEN Some(v[2][2]) ELSE None

\* Config::get_f64
get_f64(d, key) ==
    LET v == get(d, key)
    IN  IF v[1] = "Some" /\ v[2][1] = "Number" THEN Some(v[2][2]) ELSE None

\* Config::get_bool
get_bool(d, key) ==
    LET v == get(d, key)
    IN  IF v[1] = "Some" /\ v[2][1] = "Bool" THEN Some(v[2][2]) ELSE None

\* Config::get_bytes
get_bytes(d, key) ==
    LET v == get(d, key)
    IN  IF v[1] = "Some" /\ v[2][1] = "Bytes" THEN Some(v[2][2]) ELSE None

\* the match of Config::set: the leaf stored for a Value
ToLeaf(value) ==
    CASE value[1] = "String" -> <<"String", value[2]>>
      [] value[1] = "Number" -> <<"Number", NumberFromF64(value[2])>>
      [] value[1] = "Bool" -> <<"Boolean", value[2]>>
      [] value[1] = "Bytes" ->
             <<"String", BASE64_PREFIX \o base64_encode(value[2])>>
      [] OTHER -> J_null

\* What the caller does with the node _lookup_parent returns:
\* lookup_mut indexes it mutably with the last segment and set assigns the
\* leaf there; delete removes the last segment from it.
AtParent(node, op) ==
    IF op[1] = "assign"
    THEN <<"Object", Insert(index_mut(node, op[2])[2], op[2], op[3])>>
    ELSE remove(node, op[2])

\* _lookup_parent, broken: the descent stops at a string, number or boolean
\* on the way and writes nothing
RECURSIVE _lookup_parent_Stops(_, _, _)
_lookup_parent_Stops(node, keys, op) ==
    LET name == Head(keys)
        keys2 == Tail(keys)
    IN  IF keys2 = <<>> THEN AtParent(node, op)
        ELSE IF Index(node, name)[1] \in {"String", "Number", "Boolean"}
        THEN node
        ELSE LET n1 == index_mut(node, name)
             IN  <<"Object",
                   Insert(n1[2], name,
                          _lookup_parent_Stops(n1[2][name], keys2, op))>>

\* JsonConfig::_lookup_parent(node, keys) and the caller's operation on the
\* node it returns; the result is `node` as the mutable descent leaves it
RECURSIVE _lookup_parent(_, _, _)
_lookup_parent(node, keys, op) ==
    LET name == Head(keys)
        keys2 == Tail(keys)
    IN  IF keys2 = <<>> THEN AtParent(node, op)
        ELSE LET n1 == index_mut(node, name)
             IN  <<"Object",
                   Insert(n1[2], name, _lookup_parent(n1[2][name], keys2, op))>>

\* assign, broken: the whole dotted key names one field of the root
assign_Flat(d, key, leaf) == <<"Object", Insert(d[2], key, leaf)>>

\* *self.lookup_mut(key) = leaf
assign(d, key, leaf) ==
    _lookup_parent(d, split(key), <<"assign", last(split(key)), leaf>>)

\* Self::_lookup_parent(&mut self.data, &keys).remove(*keys.last().unwrap())
delete_at(d, key) ==
    _lookup_parent(d, split(key), <<"remove", last(split(key)), J_null>>)

-----------------------------------------------------------------------------
(* Persistence: the written document and the file *)

NoFile == <<"absent", <<>>>>
Garbage == <<"garbage", <<>>>>
TextOf(doc) == <<"text", doc>>

\* self.data.pretty(4): NaN has no JSON notation and is written as null
RECURSIVE pretty(_)
pretty(node) ==
    CASE node[1] = "String" -> <<"str", node[2]>>
      [] node[1] = "Number" ->
             IF node[2][1] = "finite" THEN <<"num", node[2][2]>>
             ELSE <<"lit", "null">>
      [] node[1] = "Boolean" ->
             <<"lit", IF node[2] THEN "true" ELSE "false">>
      [] node[1] = "Object" ->
             <<"obj", [n \in DOMAIN node[2] |-> pretty(node[2][n])]>>
      [] node[1] = "Array" -> <<"arr", <<>>>>
      [] OTHER -> <<"lit", "null">>

\* json::parse of a well-formed document
RECURSIVE parse(_)
parse(doc) ==
    CASE doc[1] = "str" -> <<"String", doc[2]>>
      [] doc[1] = "num" -> <<"Number", <<"finite", doc[2]>>>>
      [] doc[1] = "lit" ->
             IF doc[2] = "null" THEN J_null ELSE <<"Boolean", doc[2] = "true">>
      [] doc[1] = "obj" ->
             <<"Object", [n \in DOMAIN doc[2] |-> parse(doc[2][n])]>>
      [] OTHER -> <<"Array", <<>>>>

IoLoad == {"ok", "fail"}
IoSave == {"ok", "create_fail", "write_fail"}

\* load, broken: any parsed value replaces the tree, object or not
load_AnyShape(d, f, io) ==
    IF io = "fail" THEN <<"Io", d>>
    ELSE IF f = NoFile THEN <<"Ok", d>>
    ELSE IF f = Garbage THEN <<"Parse", d>>
    ELSE <<"Ok", parse(f[2])>>

\* load, broken: the tree is emptied before the file is parsed
load_ClearsFirst(d, f, io) ==
    IF io = "fail" THEN <<"Io", d>>
    ELSE IF f = NoFile THEN <<"Ok", d>>
    ELSE IF f = Garbage THEN <<"Parse", new_object>>
    ELSE LET v == parse(f[2])
         IN  IF is_object(v) THEN <<"Ok", v>> ELSE <<"Parse", new_object>>

\* load, broken: a missing file is reported like any other I/O failure
load_NotFoundIsIo(d, f, io) ==
    IF io = "fail" \/ f = NoFile THEN <<"Io", d>>
    ELSE IF f = Garbage THEN <<"Parse", d>>
    ELSE LET v == parse(f[2])
         IN  IF is_object(v) THEN <<"Ok", v>> ELSE <<"Parse", d>>

\* load, broken: the parsed fields are merged into the tree in memory
load_Merges(d, f, io) ==
    IF io = "fail" THEN <<"Io", d>>
    ELSE IF f = NoFile THEN <<"Ok", d>>
    ELSE IF f = Garbage THEN <<"Parse", d>>
    ELSE LET v == parse(f[2])
         IN  IF is_object(v)
             THEN <<"Ok", <<"Object",
                    [n \in (DOMAIN d[2]) \cup (DOMAIN v[2]) |->
                        IF n \in DOMAIN v[2] THEN v[2][n] ELSE d[2][n]]>>>>
             ELSE <<"Parse", d>>

\* JsonConfig::load on tree d and file f: <<result, the tree afterwards>>
load(d, f, io) ==
    IF io = "fail" THEN <<"Io", d>>
    ELSE IF f = NoFile THEN <<"Ok", d>>
    ELSE IF f = Garbage THEN <<"Parse", d>>
    ELSE LET v == parse(f[2])
         IN  IF is_object(v) THEN <<"Ok", v>> ELSE <<"Parse", d>>

\* JsonConfig::save of tree d over file f: <<result, the file afterwards>>.
\* File::create fails and leaves the file alone, or truncates it; write_all
\* then writes the whole text, or fails and leaves a truncated file.
save(d, f, io) ==
    CASE io = "create_fail" -> <<"Io", f>>
      [] io = "write_fail" -> <<"Io", Garbage>>
      [] OTHER -> <<"Ok", TextOf(pretty(d))>>

\* auto_save_unwrap, broken: the result of save is dropped
auto_save_Ignored(as, d, f, io) ==
    IF as THEN <<"Ok", save(d, f, io)[2]>> ELSE <<"Ok", f>>

\* auto_save_unwrap, broken: the flag is tested the wrong way round
auto_save_Inverted(as, d, f, io) ==
    IF ~as
    THEN LET r == save(d, f, io)
         IN  <<IF r[1] = "Ok" THEN "Ok" ELSE "Panic", r[2]>>
    ELSE <<"Ok", f>>

\* auto_save_unwrap, broken: the save runs whatever the flag says
auto_save_Always(as, d, f, io) ==
    LET r == save(d, f, io)
    IN  <<IF r[1] = "Ok" THEN "Ok" ELSE "Panic", r[2]>>

\* if self.auto_save { self.save().unwrap(); }
\* <<result, the file afterwards>>: unwrap turns an Err into a panic
auto_save_unwrap(as, d, f, io) ==
    IF as
    THEN LET r == save(d, f, io)
         IN  <<IF r[1] = "Ok" THEN "Ok" ELSE "Panic", r[2]>>
    ELSE <<"Ok", f>>

-----------------------------------------------------------------------------
(* The states and the operations *)

\* Documents the file may hold when a store is constructed over it
D_a == [n \in {K_a} |-> <<"str", T_x>>]
D_nested == [n \in {K_a} |-> <<"obj", [m \in {<<"b">>} |-> <<"num", 1>>]>>]

InitFiles ==
    {NoFile, Garbage, TextOf(<<"arr", <<>>>>), TextOf(<<"obj", NoFields>>),
     TextOf(<<"obj", D_a>>), TextOf(<<"obj", D_nested>>)}

Init ==
    /\ auto_save \in BOOLEAN
    /\ data = new_object
    /\ file \in InitFiles
    /\ nops = 0
    /\ lastOp = "new"
    /\ lastKey = <<>>
    /\ lastVal = V_null
    /\ lastRes = "Ok"
    /\ lastGet = None
    /\ lastIo = "none"
    /\ prevData = new_object
    /\ prevFile = file
    /\ written = {}
    /\ loaded = FALSE
    /\ od_pc = "stopped"
    /\ od_data = new_object
    /\ od_refresh = <<>>
    /\ od_access = <<>>
    /\ od_code = <<>>
    /\ od_sent = <<>>
    /\ od_runs = 0
    /\ od_entered = {}

\* A panic ends the process: its store takes no further call.
Alive == lastRes # "Panic" /\ nops < MaxOps

Step(op, key, value, io) ==
    /\ nops' = nops + 1
    /\ lastOp' = op
    /\ lastKey' = key
    /\ lastVal' = value
    /\ lastIo' = io
    /\ prevData' = data
    /\ prevFile' = file
    /\ UNCHANGED odvars

\* JsonConfig::new(path, as) over the same file (a later run of the program)
New(as) ==
    /\ nops < MaxOps
    /\ Step("new", <<>>, V_null, "none")
    /\ auto_save' = as
    /\ data' = new_object
    /\ lastRes' = "Ok"
    /\ written' = {}
    /\ loaded' = FALSE
    /\ UNCHANGED <<file, lastGet>>

\* Get, broken: the path is resolved with lookup_mut, the mutable index
Get_Vivifies(key) ==
    /\ Alive
    /\ Step("get", key, V_null, "none")
    /\ lastGet' = get(data, key)
    /\ lastRes' = "Ok"
    /\ data' = assign(data, key, lookup(data, key))
    /\ UNCHANGED <<auto_save, file, written, loaded>>

\* Config::get: &self, the tree is only read
Get(key) ==
    /\ Alive
    /\ Step("get", key, V_null, "none")
    /\ lastGet' = get(data, key)
    /\ lastRes' = "Ok"
    /\ UNCHANGED <<auto_save, data, file, written, loaded>>

\* The typed accessors of the Config trait
Accessors == {"get_str", "get_f64", "get_bool", "get_bytes"}

\* Config::get_str / get_f64 / get_bool / get_bytes: &self, like get
GetTyped(acc, key) ==
    /\ Alive
    /\ Step(acc, key, V_null, "none")
    /\ lastGet' = CASE acc = "get_str" -> get_str(data, key)
                    [] acc = "get_f64" -> get_f64(data, key)
                    [] acc = "get_bool" -> get_bool(data, key)
                    [] OTHER -> get_bytes(data, key)
    /\ lastRes' = "Ok"
    /\ UNCHANGED <<auto_save, data, file, written, loaded>>

\* Set, broken: the assignment is undone when the save fails
Set_RollsBack(key, value, io) ==
    /\ Alive
    /\ Step("set", key, value, io)
    /\ LET d == assign(data, key, ToLeaf(value))
           r == auto_save_unwrap(auto_save, d, file, io)
       IN  /\ lastRes' = r[1]
           /\ file' = r[2]
           /\ data' = IF r[1] = "Ok" THEN d ELSE data
    /\ written' = written \cup {key}
    /\ UNCHANGED <<auto_save, lastGet, loaded>>

\* Config::set for JsonConfig
Set(key, value, io) ==
    /\ Alive
    /\ Step("set", key, value, io)
    /\ data' = assign(data, key, ToLeaf(value))
    /\ LET r == auto_save_unwrap(auto_save, data', file, io)
       IN  lastRes' = r[1] /\ file' = r[2]
    /\ written' = written \cup {key}
    /\ UNCHANGED <<auto_save, lastGet, loaded>>

Delete(key, io) ==
    /\ Alive
    /\ Step("delete", key, V_null, io)
    /\ data' = delete_at(data, key)
    /\ LET r == auto_save_unwrap(auto_save, data', file, io)
       IN  lastRes' = r[1] /\ file' = r[2]
    /\ UNCHANGED <<auto_save, lastGet, written, loaded>>

Load(io) ==
    /\ Alive
    /\ Step("load", <<>>, V_null, io)
    /\ LET r == load(data, file, io)
       IN  /\ lastRes' = r[1]
           /\ data' = r[2]
           /\ loaded' = (loaded \/ (r[1] = "Ok" /\ file # NoFile))
    /\ UNCHANGED <<auto_save, file, lastGet, written>>

Save(io) ==
    /\ Alive
    /\ Step("save", <<>>, V_null, io)
    /\ LET r == save(data, file, io)
       IN  lastRes' = r[1] /\ file' = r[2]
    /\ UNCHANGED <<auto_save, data, lastGet, written, loaded>>

\* the file system outcomes an auto-saving operation can meet
AutoIo == IF auto_save THEN IoSave ELSE {"none"}

Next ==
    \/ \E as \in BOOLEAN : New(as)
    \/ \E key \in Keys : Get(key)
    \/ \E acc \in Accessors, key \in Keys : GetTyped(acc, key)
    \/ \E key \in Keys, value \in Values, io \in AutoIo : Set(key, value, io)
    \/ \E key \in Keys, io \in AutoIo : Delete(key, io)
    \/ \E io \in IoLoad : Load(io)
    \/ \E io \in IoSave : Save(io)

Spec == Init /\ [][Next]_vars

-----------------------------------------------------------------------------
(* OneDriveClient (src/objectstore/onedrive.rs) over the shared store.     *)
(* The store is the auto-saving JsonConfig of main.rs; its saves are taken *)
(* to succeed, so that a later run of the program loads what the earlier   *)
(* run left.                                                               *)

K_code ==
    <<"o", "n", "e", "d", "r", "i", "v", "e", ".", "c", "o", "d", "e">>

K_refresh_token ==
    <<"o", "n", "e", "d", "r", "i", "v", "e", ".", "r", "e", "f", "r", "e",
      "s", "h", "_", "t", "o", "k", "e", "n">>

EP ==
    <<"h", "t", "t", "p", "s", ":", "/", "/", "l", "o", "g", "i", "n", ".",
      "l", "i", "v", "e", ".", "c", "o", "m", "/", "o", "a", "u", "t", "h",
      "2", "0", "_", "a", "u", "t", "h", "o", "r", "i", "z", "e", ".", "s",
      "r", "f">>

\* Codes the user obtains from the authorization page
OD_Codes == {<<"c", "1">>, <<"c", "2">>}

\* Tokens a complete token response carries
T_access == <<"A">>
T_refresh == <<"R">>

\* What the token endpoint answers: the request fails, the body is not
\* JSON, the JSON lacks the first field read, it lacks only refresh_token,
\* or it is complete
OD_Responses == {"send_err", "not_json", "error_body", "no_refresh", "ok"}

\* Option<String>::unwrap_or_default
unwrap_or_default(o) == IF o[1] = "Some" THEN o[2] ELSE <<>>

\* config.set(key, text) through the Config trait
config_set(d, key, text) == assign(d, key, ToLeaf(<<"String", text>>))

\* OneDriveClient::_update_access_token on response resp:
\* <<result, the store's tree, access_token, refresh_token>> afterwards.
\* The fields are assigned in order until one is missing.
_update_access_token(resp, d, access, refresh) ==
    CASE resp = "ok" ->
             <<"Ok", config_set(d, K_refresh_token, T_refresh), T_access,
               T_refresh>>
      [] resp = "no_refresh" -> <<"Err", d, T_access, refresh>>
      [] OTHER -> <<"Err", d, access, refresh>>

InitOD ==
    /\ auto_save = TRUE
    /\ data = new_object
    /\ file = NoFile
    /\ nops = 0
    /\ lastOp = "new"
    /\ lastKey = <<>>
    /\ lastVal = V_null
    /\ lastRes = "Ok"
    /\ lastGet = None
    /\ lastIo = "none"
    /\ prevData = new_object
    /\ prevFile = NoFile
    /\ written = {}
    /\ loaded = FALSE
    /\ od_pc = "stopped"
    /\ od_data = new_object
    /\ od_refresh = <<>>
    /\ od_access = <<>>
    /\ od_code = <<>>
    /\ od_sent = <<>>
    /\ od_runs = 0
    /\ od_entered = {}

\* The user replaces the value at "onedrive.code" in the configuration file
\* by a code not used before, while the program is not running.
OD_UserEntersCode(c) ==
    /\ od_pc = "stopped"
    /\ c \notin od_entered
    /\ od_entered' = od_entered \cup {c}
    /\ od_data' = config_set(od_data, K_code, c)
    /\ UNCHANGED <<od_pc, od_refresh, od_access, od_code, od_sent, od_runs>>
    /\ UNCHANGED cfgvars

\* main: JsonConfig::new, load, OneDriveClient::new
OD_Start ==
    /\ od_pc = "stopped"
    /\ od_runs < MaxRuns
    /\ od_runs' = od_runs + 1
    /\ od_data' = load(new_object, TextOf(pretty(od_data)), "ok")[2]
    /\ od_refresh' = unwrap_or_default(get_str(od_data', K_refresh_token))
    /\ od_access' = <<>>
    /\ od_code' = <<>>
    /\ od_pc' = "ready"
    /\ UNCHANGED <<od_sent, od_entered>>
    /\ UNCHANGED cfgvars

\* OneDriveClient::access_test up to the token request it sends, or to its
\* panic when there is no code to send
OD_AccessTestBegin ==
    /\ od_pc \in {"ready", "done"}
    /\ IF od_refresh = <<>>
       THEN LET code == unwrap_or_default(get_str(od_data, K_code))
            IN  IF code # <<>>
                THEN /\ od_data' = delete_at(od_data, K_code)
                     /\ od_code' = code
                     /\ od_pc' = "exchange"
                ELSE /\ od_data' = config_set(od_data, K_code, EP)
                     /\ od_code' = code
                     /\ od_pc' = "panicked"
       ELSE /\ od_pc' = "refresh"
            /\ od_code' = <<>>
            /\ od_data' = od_data
    /\ UNCHANGED <<od_refresh, od_access, od_sent, od_runs, od_entered>>
    /\ UNCHANGED cfgvars

\* access_test from the answer to the authorization_code request on: return
\* when the tokens were updated, else leave the authorization URL at
\* "onedrive.code" and panic
OD_Exchange(resp) ==
    /\ od_pc = "exchange"
    /\ od_sent' = Append(od_sent, od_code)
    /\ LET r == _update_access_token(resp, od_data, od_access, od_refresh)
       IN  /\ od_access' = r[3]
           /\ od_refresh' = r[4]
           /\ IF r[1] = "Ok"
              THEN od_data' = r[2] /\ od_pc' = "done"
              ELSE od_data' = config_set(r[2], K_code, EP) /\ od_pc' = "panicked"
    /\ UNCHANGED <<od_code, od_runs, od_entered>>
    /\ UNCHANGED cfgvars

\* access_test from the answer to the refresh_token request on:
\* self.update_access_token().unwrap()
OD_Refresh(resp) ==
    /\ od_pc = "refresh"
    /\ LET r == _update_access_token(resp, od_data, od_access, od_refresh)
       IN  /\ od_access' = r[3]
           /\ od_refresh' = r[4]
           /\ od_data' = r[2]
           /\ od_pc' = IF r[1] = "Ok" THEN "done" ELSE "panicked"
    /\ UNCHANGED <<od_code, od_sent, od_runs, od_entered>>
    /\ UNCHANGED cfgvars

\* main returns, or the panic ends the process
OD_Exit ==
    /\ od_pc \in {"done", "panicked"}
    /\ od_pc' = "stopped"
    /\ UNCHANGED <<od_data, od_refresh, od_access, od_code, od_sent, od_runs,
                   od_entered>>
    /\ UNCHANGED cfgvars

NextOD ==
    \/ \E c \in OD_Codes : OD_UserEntersCode(c)
    \/ OD_Start
    \/ OD_AccessTestBegin
    \/ \E resp \in OD_Responses : OD_Exchange(resp)
    \/ \E resp \in OD_Responses : OD_Refresh(resp)
    \/ OD_Exit

SpecOD == InitOD /\ [][NextOD]_vars

-----------------------------------------------------------------------------
(* Properties *)

\* The paths the properties read: the keys the operations use, a sibling of
\* the top-level key and a path one segment deeper than any key.
Probes == Keys \cup {<<"b">>, K_aba \o <<".", "a">>}

\* A separately constructed store over the same file, after its load():
\* <<result of load, its tree>>
Fresh(f) == load(new_object, f, "ok")

SameReads(d1, d2) == \A p \in Probes : get(d1, p) = get(d2, p)

C2_PersistedRoundTrip ==
    (lastOp = "save" /\ lastRes = "Ok") =>
        Fresh(file)[1] = "Ok" /\ SameReads(Fresh(file)[2], data)

\* C3 as stated: on an auto_save store, after every set or delete that
\* returns, the file holds the in-memory tree and a new store that loads it
\* reads the same get(p) for every p.
C3_AutoSaveVisible ==
    (auto_save /\ lastOp \in {"set", "delete"} /\ lastRes = "Ok") =>
        Fresh(file)[1] = "Ok" /\ SameReads(Fresh(file)[2], data)

\* C4 as stated (its frame part): delete(p) of a path that was never the
\* target of a set, on a store that loaded nothing, leaves get(q) unchanged
\* for every q.
C4_DeleteNeverSetIsNoOp ==
    (lastOp = "delete" /\ lastKey \notin written /\ ~loaded /\ lastRes = "Ok") =>
        SameReads(data, prevData)

\* C5: after delete(p), get(p) is None, whatever was set at p before.
C5_DeletedReadsNone ==
    lastOp = "delete" => get(data, lastKey) = None

\* C5 witness: set(p, v) with a readable v, then delete(p)
C5_Witness ==
    /\ lastOp = "delete" /\ lastRes = "Ok"
    /\ lastKey \in written
    /\ Len(split(lastKey)) > 1
    /\ get(prevData, lastKey) # None
    /\ get(data, lastKey) = None

\* C6: the root of the in-memory tree is always an object, and every file a
\* save (explicit or automatic) has just written in full holds an object at
\* top level, which a new store loads without a Parse error.
C6_RootIsObject ==
    /\ is_object(data)
    /\ (lastOp \in {"save", "set", "delete"} /\ lastRes = "Ok" /\ lastIo = "ok") =>
           /\ file[1] = "text" /\ file[2][1] = "obj"
           /\ Fresh(file)[1] = "Ok"

\* C6 witness: an auto-saving set of the empty key over a broken or wrongly
\* shaped file
C6_Witness ==
    /\ lastOp = "set" /\ lastKey = K_empty /\ lastRes = "Ok" /\ lastIo = "ok"
    /\ prevFile \in {Garbage, TextOf(<<"arr", <<>>>>)}
    /\ is_object(data) /\ file[2][1] = "obj"

\* C7: a load over an unparseable file, or over a file whose top level is
\* not an object, returns a Parse error, and every failing load (Parse or
\* Io) leaves the in-memory tree as it was.
C7_FailedLoadKeepsTree ==
    lastOp = "load" =>
        /\ (lastIo = "ok" /\ prevFile \in {Garbage, TextOf(<<"arr", <<>>>>)})
               => lastRes = "Parse"
        /\ lastRes \in {"Parse", "Io"} => data = prevData

\* C7 witness: a Parse error on a store holding an unsaved set
C7_Witness ==
    /\ lastOp = "load" /\ lastRes = "Parse"
    /\ written # {} /\ data = prevData /\ data # new_object

\* C8: with no file at the path, load() succeeds and leaves the tree as it
\* was (a new store still reads None everywhere); any other I/O failure is
\* reported as an Io error.
C8_MissingFileLoad ==
    lastOp = "load" =>
        /\ (prevFile = NoFile /\ lastIo = "ok") =>
               /\ lastRes = "Ok" /\ data = prevData
               /\ (written = {} /\ ~loaded) => \A p \in Probes : get(data, p) = None
        /\ lastIo = "fail" => lastRes = "Io"

\* C8 witness: load of a missing file on a store holding a set value
C8_Witness ==
    /\ lastOp = "load" /\ lastRes = "Ok" /\ prevFile = NoFile
    /\ written # {} /\ data # new_object

\* C9: get(p) always returns, changes neither the tree nor the file, and
\* returns None for a key this store never set on a tree it never loaded.
C9_GetReadOnly ==
    lastOp = "get" =>
        /\ lastRes = "Ok"
        /\ data = prevData /\ file = prevFile
        /\ (lastKey \notin written /\ ~loaded) => lastGet = None

\* C9 witness: get of a path that runs through a scalar node
C9_Witness ==
    /\ lastOp = "get" /\ lastKey = K_aba /\ lastGet = None
    /\ get(data, K_a) # None

\* C10 as stated: delete(p) never ends in an error or abort.
C10_DeleteNeverFails ==
    lastOp = "delete" => lastRes = "Ok"

\* C10 amended: delete(p) never fails on account of the path or the tree;
\* it aborts (panics) exactly when auto_save is enabled and the save it
\* triggers fails, and completes otherwise.
C10_DeleteFailsOnlyOnSave ==
    lastOp = "delete" =>
        /\ lastRes \in {"Ok", "Panic"}
        /\ lastRes = "Panic" <=> (auto_save /\ lastIo # "ok")

\* C10 witness: a delete on an auto_save store that cannot create the file
C10_Witness ==
    /\ lastOp = "delete" /\ auto_save /\ lastIo = "create_fail"
    /\ lastRes = "Panic"

\* C11: set(p, v) ends either normally or in a panic; with auto_save
\* disabled it never fails, and with auto_save enabled it panics exactly
\* when the save it triggers fails.
C11_SetFailsOnlyOnSave ==
    lastOp = "set" =>
        /\ lastRes \in {"Ok", "Panic"}
        /\ ~auto_save => lastRes = "Ok"
        /\ auto_save => (lastRes = "Panic" <=> lastIo # "ok")

\* C11 witness: a set on an auto_save store whose file cannot be written
C11_Witness ==
    /\ lastOp = "set" /\ auto_save /\ lastIo = "write_fail"
    /\ lastRes = "Panic"

\* What a file holds for get: nothing when there is no file
FileTree(f) == IF f[1] = "text" THEN parse(f[2]) ELSE new_object

\* C12 as stated: after every successful load(), get(p) reflects only the
\* file for every p, and the mutations not yet saved are gone.
C12_LoadReplacesTree ==
    (lastOp = "load" /\ lastRes = "Ok") => SameReads(data, FileTree(prevFile))

\* C12 amended: a successful load() of an existing file replaces the whole
\* tree with the parsed file content, so get(p) reflects only the file and
\* unsaved mutations are gone; a successful load() with no file at the path
\* leaves the tree, unsaved mutations included, as it was.
C12_LoadReplacesTreeOfExistingFile ==
    (lastOp = "load" /\ lastRes = "Ok") =>
        IF prevFile = NoFile
        THEN data = prevData
        ELSE /\ prevFile[1] = "text"
             /\ data = parse(prevFile[2])
             /\ SameReads(data, FileTree(prevFile))

\* C12 witness: a load that discards an unsaved set of a key the file lacks
C12_Witness ==
    /\ lastOp = "load" /\ lastRes = "Ok" /\ prevFile # NoFile
    /\ \E k \in written : get(prevData, k) # None /\ get(data, k) = None

\* What get(p) returns after set(p, v), for the values the model sets
ReadBack(v) ==
    CASE v = V_null -> None
      [] v = <<"String", T_tagged>> -> Some(<<"Bytes", <<1>>>>)
      [] v = <<"Number", F_inf>> -> Some(<<"Number", F_nan>>)
      [] OTHER -> Some(v)

\* segs1 is a proper prefix of segs2, segment by segment
IsProperPrefix(segs1, segs2) ==
    Len(segs1) < Len(segs2) /\ SubSeq(segs2, 1, Len(segs1)) = segs1

\* the key has intermediate segments and the first of them is absent
Unvivified(d, key) ==
    Len(split(key)) > 1 /\ Head(split(key)) \notin DOMAIN d[2]

C14_NoAutoSaveNoWrite ==
    /\ lastOp \in {"get", "load"} => file = prevFile
    /\ (~auto_save /\ lastOp \in {"set", "delete"}) => file = prevFile
    /\ (~auto_save /\ file # prevFile) => lastOp = "save"

\* C14 witness: a set that changes the tree of a store without auto_save and
\* leaves the path without a file
C14_Witness ==
    /\ lastOp = "set" /\ ~auto_save /\ data # prevData
    /\ prevFile = NoFile /\ file = NoFile

\* The Value variant an accessor hands out
VariantOf(acc) ==
    CASE acc = "get_str" -> "String"
      [] acc = "get_f64" -> "Number"
      [] acc = "get_bool" -> "Bool"
      [] OTHER -> "Bytes"

\* C15: a typed accessor returns Some(x) exactly when get(p) is Some of its
\* own variant with payload x, and None, never an error, when get(p) is None
\* or holds another variant.
C15_TypedAccessors ==
    lastOp \in Accessors =>
        LET g == get(data, lastKey)
        IN  /\ lastRes = "Ok"
            /\ g = None => lastGet = None
            /\ g # None =>
                   IF g[2][1] = VariantOf(lastOp)
                   THEN lastGet = Some(g[2][2]) ELSE lastGet = None

\* C15 witness: get_str of a key that was set to Bytes returns None
C15_Witness ==
    /\ lastOp = "get_str" /\ lastKey \in written
    /\ get(data, lastKey) = Some(<<"Bytes", <<1>>>>)
    /\ lastGet = None

\* the proper prefixes of `key`, among the probes, that read as a value in d
ScalarPrefixes(d, key) ==
    {k \in Probes : IsProperPrefix(split(k), split(key)) /\ get(d, k) # None}

Unrelated(segs1, segs2) ==
    /\ segs1 # segs2
    /\ ~IsProperPrefix(segs1, segs2)
    /\ ~IsProperPrefix(segs2, segs1)

\* C17: set(p, v) and delete(p) leave get(q) unchanged for every q such that
\* neither of p and q is a prefix of the other.
C17_MutationsAreLocal ==
    lastOp \in {"set", "delete"} =>
        \A q \in Probes : Unrelated(split(q), split(lastKey)) =>
            get(data, q) = get(prevData, q)

\* C17 witness: a set of "a.b" beside a readable "a.a"
C17_Witness ==
    /\ lastOp = "set" /\ lastKey = K_ab
    /\ get(prevData, K_aa) # None /\ get(prevData, K_ab) = None
    /\ get(data, K_ab) # None /\ get(data, K_aa) = get(prevData, K_aa)

\* C18: a string leaf that is the marker followed by valid base64 is read as
\* Bytes(decoded), also when it was set as a String; a string leaf with the
\* marker and an undecodable rest, and one without the marker, is read as
\* String of the same text.
C18_TagDecoding ==
    /\ \A p \in Probes :
           LET n == lookup(data, p)
           IN  n[1] = "String" =>
                   get(data, p) =
                       IF n[2] = T_tagged THEN Some(<<"Bytes", <<1>>>>)
                       ELSE Some(<<"String", n[2]>>)
    /\ (lastOp = "set" /\ lastVal[1] = "String") =>
           lookup(data, lastKey) = <<"String", lastVal[2]>>

\* C18 witness: a String with the marker and valid base64 read as Bytes,
\* beside a String with the marker and an undecodable rest read as String
C18_Witness ==
    /\ lastOp = "set" /\ lastVal = <<"String", T_tagged>>
    /\ get(data, lastKey) = Some(<<"Bytes", <<1>>>>)
    /\ \E p \in Probes : get(data, p) = Some(<<"String", T_badtag>>)

\* the mutation of the last set or delete shows in get on this store
MutationApplied ==
    get(data, lastKey) = IF lastOp = "set" THEN ReadBack(lastVal) ELSE None

\* C19 as stated: when the save triggered by set or delete fails, the
\* mutation stays applied in memory, and the in-memory tree differs from the
\* document in the file.
C19_FailedAutoSaveLeavesFileBehind ==
    (lastOp \in {"set", "delete"} /\ lastRes = "Panic") =>
        /\ MutationApplied
        /\ ~(file[1] = "text" /\ parse(file[2]) = data)

\* C19 amended: when the save triggered by set or delete on an auto_save
\* store fails, the mutation stays applied in memory, and the file keeps the
\* content it had (the file could not be created) or is left truncated and
\* unparseable (it could not be written); the file is not brought up to
\* date, but it may already hold what the mutation wrote.
C19_NoRollback ==
    (lastOp \in {"set", "delete"} /\ lastRes = "Panic") =>
        /\ auto_save
        /\ MutationApplied
        /\ lastIo = "create_fail" => file = prevFile
        /\ lastIo = "write_fail" => file = Garbage /\ Fresh(file)[1] = "Parse"

\* C19 witness: a set whose save cannot create the file; this store reads
\* the new value, a store loading the file does not
C19_Witness ==
    /\ lastOp = "set" /\ lastRes = "Panic" /\ lastIo = "create_fail"
    /\ get(data, lastKey) # None /\ get(prevData, lastKey) = None
    /\ Fresh(file)[1] = "Ok" /\ get(Fresh(file)[2], lastKey) = None

\* The invocation of access_test that just ended, or is sending, read a
\* non-empty code
CodeWasRead == od_code # <<>>

\* C20 as stated: a non-empty code read from "onedrive.code" is out of the
\* store before the token request is sent and stays out whatever the answer;
\* no code value is posted twice; a successful exchange leaves the returned
\* refresh token at "onedrive.refresh_token".
C20_OneTimeCode ==
    /\ (od_pc \in {"exchange", "done", "panicked"} /\ CodeWasRead) =>
           get_str(od_data, K_code) # Some(od_code)
    /\ \A i, j \in 1..Len(od_sent) : i # j => od_sent[i] # od_sent[j]
    /\ (od_pc = "done" /\ CodeWasRead) =>
           get_str(od_data, K_refresh_token) = Some(od_refresh)

====
